---- MODULE Spec2Model ----
(***************************************************************************)
(* Model of the sparse_hash_delta crate (src/src/lib.rs): the rolling      *)
(* hash, the sparse hash index, match extraction with overlap resolution,  *)
(* the delta encoder and the restore decoder.                              *)
(*                                                                         *)
(* Buffers are sequences of bytes; the code indexes from 0, TLA+ from 1,   *)
(* so At(s, i) reads the code's s[i].  usize is the 64-bit machine word.   *)
(* Values that stay below M are ordinary integers; min_match_len, the one  *)
(* caller-chosen word, is kept at full width as four 16-bit limbs (least   *)
(* significant first) so that `min_match_len + 1` can overflow.            *)
(***************************************************************************)
EXTENDS Integers, Sequences, FiniteSets, TLC

\* ------------------------------------------------------------------ bounds
MaxLenA == 5
MaxLenB == 4
MaxMinMatchLen == 5
MaxDataLen == 6
MaxWindow == 6

\* Byte values of the reference and of the target.  [1,0] in the reference and
\* [0,100] in the target are two windows whose polynomial hashes collide
\* (2*100 + 1 = 1*100 + 101); 100 never occurs in the reference.
BytesA == {0, 1}
BytesB == {0, 1, 100}
\* Byte values of the rolling-hash inputs: 255 drives the polynomial past M.
HashBytes == {0, 99, 255}

\* ------------------------------------------------------------------ constants
M == 1000000007
B == 100

\* ------------------------------------------------------------------ helpers
At(s, i) == s[i + 1]
\* s[lo..hi) of the code
Slice(s, lo, hi) == SubSeq(s, lo + 1, hi)
Min(x, y) == IF x <= y THEN x ELSE y

SeqsUpTo(S, n) == UNION {[1..k -> S] : k \in 0..n}

\* (x * y) % M for x, y < M.  The 64-bit product never overflows (x*y < 2^60);
\* it is computed here by double-and-add so that no intermediate value leaves
\* the 32-bit integers TLC evaluates with.
RECURSIVE MulMod(_, _)
MulMod(x, y) ==
    IF x = 0 THEN 0
    ELSE IF y <= 2147483647 \div x THEN (x * y) % M
    ELSE LET h == MulMod(x \div 2, y % M)
             d == (h + h) % M
         IN  IF x % 2 = 1 THEN (d + (y % M)) % M ELSE d

\* ------------------------------------------------------------------ modpow
\* lib.rs modpow: square-and-multiply, every product reduced mod M.
RECURSIVE modpow_loop(_, _, _)
modpow_loop(result, base, exponent) ==
    IF exponent > 0
    THEN modpow_loop(IF exponent % 2 = 1 THEN MulMod(result, base) ELSE result,
                     MulMod(base, base),
                     exponent \div 2)
    ELSE result

modpow(base, exponent) == modpow_loop(1, base, exponent)

\* ------------------------------------------------------------------ RollingHash
to_usize(x) == x + 1

\* data.iter().take(hash_len).fold(0, |hash, byte| (hash * B + to_usize(byte)) % M)
RECURSIVE initial_hash_fold(_, _, _, _)
initial_hash_fold(data, n, j, hash) ==
    IF j >= n THEN hash
    ELSE initial_hash_fold(data, n, j + 1,
                           (MulMod(hash, B) + to_usize(At(data, j))) % M)

initial_hash(data, hash_len) ==
    initial_hash_fold(data, Min(hash_len, Len(data)), 0, 0)

\* Option: None is the empty tuple, Some(x) the tuple of x (an item is the pair).
None == <<>>
Some(x) == <<x>>
unwrap(o) == o[1]

RollingHash_new_pow_off_by_one(data, k) ==
    LET hl == Min(Len(data), k)
    IN  [data |-> data, hash_len |-> hl, index |-> 0, hash |-> None,
         base_pow |-> modpow(B, hl - 1)]

\* RollingHash::new: the window length is clamped to the buffer length.
RollingHash_new(data, k) ==
    LET hl == Min(Len(data), k)
    IN  [data |-> data, hash_len |-> hl, index |-> 0, hash |-> None,
         base_pow |-> modpow(B, hl)]

\* RollingHash::next: [item, it] where item is None or <<hash, index>> and it
\* is the iterator afterwards.
RollingHash_next(it) ==
    IF it.index + it.hash_len >= Len(it.data)
    THEN [item |-> None, it |-> it]
    ELSE IF it.hash = None
    THEN LET hash == initial_hash(it.data, it.hash_len)
         IN  [item |-> <<hash, 0>>, it |-> [it EXCEPT !.hash = Some(hash)]]
    ELSE LET v1 == MulMod(B, unwrap(it.hash))
             v2 == to_usize(At(it.data, it.index + it.hash_len))
             v3 == MulMod(it.base_pow, to_usize(At(it.data, it.index)))
             hash == (v1 + v2 + M - v3) % M
         IN  [item |-> <<hash, it.index + 1>>,
              it |-> [it EXCEPT !.index = it.index + 1, !.hash = Some(hash)]]

\* nth(n) of the iterator: skip n items, then next(); None as soon as the
\* iterator is exhausted.
RECURSIVE nth(_, _)
nth(it, n) ==
    LET r == RollingHash_next(it)
    IN  IF n = 0 \/ r.item = None THEN r ELSE nth(r.it, n - 1)

\* ------------------------------------------------------------------ usize
\* A 64-bit word as four 16-bit limbs, least significant first.
Usize(n) == <<n % 65536, n \div 65536, 0, 0>>
UsizeMax == <<65535, 65535, 65535, 65535>>

\* w + 1: the wrapped sum and whether the addition overflowed the word.
AddOne(w) ==
    LET s1 == w[1] + 1
        s2 == w[2] + (s1 \div 65536)
        s3 == w[3] + (s2 \div 65536)
        s4 == w[4] + (s3 \div 65536)
    IN  [value |-> <<s1 % 65536, s2 % 65536, s3 % 65536, s4 % 65536>>,
         overflow |-> s4 \div 65536 = 1]

\* w / 2
Half(w) ==
    <<(w[1] \div 2) + (w[2] % 2) * 32768,
      (w[2] \div 2) + (w[3] % 2) * 32768,
      (w[3] \div 2) + (w[4] % 2) * 32768,
      w[4] \div 2>>

IsZero(w) == w = <<0, 0, 0, 0>>

\* min(n, w) for a small n
ClampTo(n, w) ==
    IF w[4] = 0 /\ w[3] = 0 /\ w[2] = 0 /\ w[1] <= n THEN w[1] ELSE n

\* ------------------------------------------------------------------ MatchInterval
empty == [la |-> 0, lb |-> 0, len |-> 0]

br(m) == m.lb + m.len

\* a[ia..].iter().zip(&b[ib..]).take_while(|(va, vb)| va == vb).count()
RECURSIVE count_right(_, _, _, _)
count_right(a_, b_, ia, ib) ==
    IF ia < Len(a_) /\ ib < Len(b_) /\ At(a_, ia) = At(b_, ib)
    THEN 1 + count_right(a_, b_, ia + 1, ib + 1)
    ELSE 0

\* a[..ia].iter().rev().zip(b[..ib].iter().rev()).take_while(..).count()
RECURSIVE count_left(_, _, _, _)
count_left(a_, b_, ia, ib) ==
    IF ia > 0 /\ ib > 0 /\ At(a_, ia - 1) = At(b_, ib - 1)
    THEN 1 + count_left(a_, b_, ia - 1, ib - 1)
    ELSE 0

\* The slices a[ia..], a[..ia], b[ib..], b[..ib] are in range.
MatchInterval_new_in_range(a_, b_, ia, ib) == ia <= Len(a_) /\ ib <= Len(b_)

MatchInterval_new_no_left(a_, b_, ia, ib) ==
    [la |-> ia, lb |-> ib - count_left(a_, b_, ia, ib),
     len |-> count_left(a_, b_, ia, ib) + count_right(a_, b_, ia, ib)]

MatchInterval_new(a_, b_, ia, ib) ==
    LET r == count_right(a_, b_, ia, ib)
        l == count_left(a_, b_, ia, ib)
    IN  [la |-> ia - l, lb |-> ib - l, len |-> l + r]

saturating_sub(x, y) == IF x >= y THEN x - y ELSE 0

remove_overlap_none(self, other) == self

remove_overlap_exact(self, other) ==
    IF br(other) <= self.lb THEN self
    ELSE IF other.lb <= self.lb /\ br(self) <= br(other)
    THEN [self EXCEPT !.len = 0]
    ELSE LET diff == br(other) - self.lb
         IN  [la |-> self.la + diff, lb |-> self.lb + diff,
              len |-> saturating_sub(self.len, diff)]

\* MatchInterval::remove_overlap: self after the call.
remove_overlap(self, other) ==
    IF br(other) <= self.lb THEN self
    ELSE IF other.lb <= self.lb /\ br(self) <= br(other)
    THEN [self EXCEPT !.len = 0]
    ELSE LET diff == br(other) - self.lb + 1
         IN  [la |-> self.la + diff, lb |-> self.lb + diff,
              len |-> saturating_sub(self.len, diff)]

\* ------------------------------------------------------------------ hash index
EmptyMap == [h \in {} |-> 0]

insert_first_wins(map, k, v) ==
    IF k \in DOMAIN map THEN map
    ELSE [h \in DOMAIN map \cup {k} |-> IF h = k THEN v ELSE map[h]]

\* HashMap::insert as collect() applies it: a later pair overwrites.
insert(map, k, v) ==
    [h \in DOMAIN map \cup {k} |-> IF h = k THEN v ELSE map[h]]

\* RollingHash::new(a, hash_len).step_by(step).collect(): the first item, then
\* every step-th one (StepBy calls nth(step - 1)).
RECURSIVE collect_step_by(_, _, _, _)
collect_step_by(it, step, first, map) ==
    LET r == IF first THEN RollingHash_next(it) ELSE nth(it, step - 1)
    IN  IF r.item = None THEN map
        ELSE collect_step_by(r.it, step, FALSE, insert(map, r.item[1], r.item[2]))

\* ------------------------------------------------------------------ delta / restore
Match(la, len) == [op |-> "Match", la |-> la, len |-> len]
Raw(data) == [op |-> "Raw", data |-> data]

\* delta, lines 20-32: the walk over a non-empty cover.  in_range is FALSE when
\* a slice of b would be out of range (the code panics there).
RECURSIVE delta_walk(_, _, _, _, _)
delta_walk(b_, ms, i, prev, results) ==
    IF i > Len(ms)
    THEN IF prev # Len(b_)
         THEN IF prev <= Len(b_)
              THEN [results |-> Append(results, Raw(Slice(b_, prev, Len(b_)))),
                    in_range |-> TRUE]
              ELSE [results |-> results, in_range |-> FALSE]
         ELSE [results |-> results, in_range |-> TRUE]
    ELSE LET m == ms[i]
         IN  IF prev < m.lb /\ m.lb > Len(b_)
             THEN [results |-> results, in_range |-> FALSE]
             ELSE delta_walk(b_, ms, i + 1, m.lb + m.len,
                     (IF prev < m.lb
                      THEN Append(results, Raw(Slice(b_, prev, m.lb)))
                      ELSE results) \o <<Match(m.la, m.len)>>)

delta_no_trailing_raw(b_, ms) ==
    IF ms = <<>> THEN [results |-> <<Raw(b_)>>, in_range |-> TRUE]
    ELSE LET w == delta_walk(b_, ms, 1, 0, <<>>)
         IN  [w EXCEPT !.results =
                 IF Len(@) > 0 /\ @[Len(@)].op = "Raw" THEN SubSeq(@, 1, Len(@) - 1) ELSE @]

delta_without_early_return(b_, ms) == delta_walk(b_, ms, 1, 0, <<>>)

\* delta, lines 16-32, given the cover extract_matches returned.
delta_encode(b_, ms) ==
    IF ms = <<>> THEN [results |-> <<Raw(b_)>>, in_range |-> TRUE]
    ELSE delta_walk(b_, ms, 1, 0, <<>>)

\* restore: one slice per operation; in_range is FALSE when a Match reaches
\* outside a.
restore_in_range(a_, cs) ==
    \A i \in 1..Len(cs) : cs[i].op = "Match" => cs[i].la + cs[i].len <= Len(a_)

restore_slices(a_, cs) ==
    [i \in 1..Len(cs) |->
        IF cs[i].op = "Match"
        THEN Slice(a_, cs[i].la, cs[i].la + cs[i].len)
        ELSE cs[i].data]

\* ------------------------------------------------------------------ state
VARIABLES
    a, b, min_match_len,    \* the arguments of delta
    pc,                     \* "call", "scan", "delta_done", "restored", "panic",
                            \* or "hash" while only a RollingHash is iterated
    hash_len,               \* extract_matches: (min_match_len + 1) / 2;
                            \* for a lone RollingHash the requested window length
    hashes,                 \* extract_matches: the index over a
    it,                     \* the RollingHash being consumed
    state,                  \* first scan's state (target offset covered so far)
    acc,                    \* second scan's state (last accepted interval)
    matches,                \* the intervals collected so far
    hits,                   \* log of the hash hits: what MatchInterval::new was
                            \* called with and returned, and what remove_overlap
                            \* made of it against which accepted interval
    results,                \* delta's return value
    slices,                 \* restore's return value
    panic,                  \* the panic message, "" when none
    yielded,                \* lone RollingHash: the pairs yielded so far
    exhausted               \* lone RollingHash: next() has returned None

vars == <<a, b, min_match_len, pc, hash_len, hashes, it, state, acc, matches,
          hits, results, slices, panic, yielded, exhausted>>

scan_vars == <<hash_len, hashes, it, state, acc, matches, hits>>

\* min_match_len values of the callers: the small ones and the largest word.
MinMatchLens == {Usize(n) : n \in 1..MaxMinMatchLen} \cup {UsizeMax}

Init ==
    /\ a \in SeqsUpTo(BytesA, MaxLenA)
    /\ b \in SeqsUpTo(BytesB, MaxLenB)
    /\ min_match_len \in MinMatchLens
    /\ pc = "call"
    /\ hash_len = Usize(0)
    /\ hashes = EmptyMap
    /\ it = RollingHash_new(<<>>, 0)
    /\ state = 0
    /\ acc = empty
    /\ matches = <<>>
    /\ hits = <<>>
    /\ results = <<>>
    /\ slices = <<>>
    /\ panic = ""
    /\ yielded = <<>>
    /\ exhausted = FALSE

\* delta -> extract_matches, lines 51-54: hash_len, the index over a, and the
\* dense iterator over b.  `min_match_len + 1` panics on overflow when the
\* build checks overflow and wraps to 0 otherwise; step_by(0) then panics.
\* A step larger than the buffer behaves as Len(a) + 1 (nth runs into None).
DeltaBegin ==
    /\ pc = "call"
    /\ LET sum == AddOne(min_match_len)
           hl == Half(sum.value)
       IN  IF sum.overflow \/ IsZero(hl)
           THEN /\ pc' = "panic"
                /\ \E overflow_checks \in BOOLEAN :
                      panic' = IF sum.overflow /\ overflow_checks
                               THEN "attempt to add with overflow"
                               ELSE "assertion failed: step != 0"
                /\ UNCHANGED scan_vars
           ELSE /\ pc' = "scan"
                /\ hash_len' = hl
                /\ hashes' = collect_step_by(RollingHash_new(a, ClampTo(Len(a), hl)),
                                             ClampTo(Len(a) + 1, hl), TRUE, EmptyMap)
                /\ it' = RollingHash_new(b, ClampTo(Len(b), hl))
                /\ state' = 0
                /\ acc' = empty
                /\ matches' = <<>>
                /\ hits' = <<>>
                /\ panic' = ""
    /\ UNCHANGED <<a, b, min_match_len, results, slices, yielded, exhausted>>

\* extract_matches, lines 55-74: one item of the dense scan of b through both
\* scan closures and the filter.
ScanStep ==
    /\ pc = "scan"
    /\ LET r == RollingHash_next(it)
       IN  /\ r.item # None
           /\ LET hb == r.item[1]
                  ib == r.item[2]
                  hit == ib >= state /\ hb \in DOMAIN hashes
                  ia == IF hit THEN hashes[hb] ELSE 0
              IN  IF hit /\ ~MatchInterval_new_in_range(a, b, ia, ib)
                  THEN /\ pc' = "panic"
                       /\ panic' = "range start index out of range"
                       /\ UNCHANGED scan_vars
                  ELSE LET m == IF hit THEN MatchInterval_new(a, b, ia, ib) ELSE empty
                           t == remove_overlap(m, acc)
                       IN  /\ it' = r.it
                           /\ state' = IF hit THEN br(m) ELSE state
                           /\ acc' = IF t.len > 0 THEN t ELSE acc
                           /\ matches' = IF t.len > 0 THEN Append(matches, t) ELSE matches
                           /\ hits' = IF hit
                                      THEN Append(hits, [hb |-> hb, ib |-> ib, ia |-> ia,
                                                         m |-> m, prev |-> acc, t |-> t])
                                      ELSE hits
                           /\ UNCHANGED <<pc, panic, hash_len, hashes>>
    /\ UNCHANGED <<a, b, min_match_len, results, slices, yielded, exhausted>>

\* The scan is exhausted: extract_matches returns and delta (lines 16-32)
\* encodes the cover.
DeltaEncode ==
    /\ pc = "scan"
    /\ RollingHash_next(it).item = None
    /\ LET e == delta_encode(b, matches)
       IN  IF e.in_range
           THEN /\ pc' = "delta_done"
                /\ results' = e.results
                /\ panic' = panic
           ELSE /\ pc' = "panic"
                /\ results' = results
                /\ panic' = "range end index out of range"
    /\ UNCHANGED <<a, b, min_match_len, slices, yielded, exhausted>>
    /\ UNCHANGED scan_vars

\* restore(a, &delta(a, b, min_match_len))
Restore ==
    /\ pc = "delta_done"
    /\ IF restore_in_range(a, results)
       THEN /\ pc' = "restored"
            /\ slices' = restore_slices(a, results)
            /\ panic' = panic
       ELSE /\ pc' = "panic"
            /\ slices' = slices
            /\ panic' = "range end index out of range"
    /\ UNCHANGED <<a, b, min_match_len, results, yielded, exhausted>>
    /\ UNCHANGED scan_vars

Next == DeltaBegin \/ ScanStep \/ DeltaEncode \/ Restore

Spec == Init /\ [][Next]_vars

\* ------------------------------------------------------------------ a lone RollingHash
\* RollingHash::new(data, k) for a buffer and a requested window length,
\* then next() until it returns None.
HashInit ==
    /\ \E data \in SeqsUpTo(HashBytes, MaxDataLen), k \in 1..MaxWindow :
          /\ it = RollingHash_new(data, k)
          /\ hash_len = Usize(k)
    /\ pc = "hash"
    /\ a = <<>>
    /\ b = <<>>
    /\ min_match_len = Usize(1)
    /\ hashes = EmptyMap
    /\ state = 0
    /\ acc = empty
    /\ matches = <<>>
    /\ hits = <<>>
    /\ results = <<>>
    /\ slices = <<>>
    /\ panic = ""
    /\ yielded = <<>>
    /\ exhausted = FALSE

\* One call of next().
HashNext ==
    /\ pc = "hash"
    /\ ~exhausted
    /\ LET r == RollingHash_next(it)
       IN  /\ it' = r.it
           /\ yielded' = IF r.item = None THEN yielded ELSE Append(yielded, r.item)
           /\ exhausted' = (r.item = None)
    /\ UNCHANGED <<a, b, min_match_len, pc, hash_len, hashes, state, acc, matches,
                   hits, results, slices, panic>>

SpecHash == HashInit /\ [][HashNext]_vars

\* ------------------------------------------------------------------ properties
\* The polynomial hash of the window D[i..i+k), term by term:
\* sum over j of (D[i+j] + 1) * 100^(k-1-j), mod 1000000007.
RECURSIVE Pow100(_)
Pow100(e) == IF e = 0 THEN 1 ELSE MulMod(100, Pow100(e - 1))

RECURSIVE DirectHashFrom(_, _, _, _)
DirectHashFrom(D, i, k, j) ==
    IF j >= k THEN 0
    ELSE (MulMod(At(D, i + j) + 1, Pow100(k - 1 - j)) + DirectHashFrom(D, i, k, j + 1))
         % 1000000007

DirectHash(D, i, k) == DirectHashFrom(D, i, k, 0)

RECURSIVE Concat(_)
Concat(ss) == IF ss = <<>> THEN <<>> ELSE Head(ss) \o Concat(Tail(ss))

OpLen(c) == IF c.op = "Match" THEN c.len ELSE Len(c.data)

\* The target position of operation j: the lengths of the operations before it.
RECURSIVE TargetPos(_, _)
TargetPos(cs, j) == IF j <= 1 THEN 0 ELSE TargetPos(cs, j - 1) + OpLen(cs[j - 1])

MatchOps(cs) == {j \in 1..Len(cs) : cs[j].op = "Match"}

\* The Copy operations of cs with their target positions, in order.
RECURSIVE CopiesFrom(_, _)
CopiesFrom(cs, j) ==
    IF j > Len(cs) THEN <<>>
    ELSE (IF cs[j].op = "Match"
          THEN <<[la |-> cs[j].la, lb |-> TargetPos(cs, j), len |-> cs[j].len]>>
          ELSE <<>>) \o CopiesFrom(cs, j + 1)

Copies(cs) == CopiesFrom(cs, 1)

Returned == pc \in {"delta_done", "restored"}

HashLenNat == hash_len[1] + 65536 * hash_len[2]

Trimmed(e) == e.t.len > 0 /\ e.t # e.m

\* A hit whose two windows hold different bytes.
Collision(e) ==
    Slice(a, e.ia, e.ia + HashLenNat) # Slice(b, e.ib, e.ib + HashLenNat)

\* C1: the slices restore returns for delta's output, concatenated in order,
\* are exactly the target buffer.
C1_RoundTrip == pc = "restored" => Concat(slices) = b

C1_Witness ==
    /\ pc = "restored"
    /\ Len(results) >= 3
    /\ results[Len(results)].op = "Raw"
    /\ MatchOps(results) # {}
    /\ Concat(slices) = b

\* The intervals of a cover are non-empty, strictly increasing in lb and
\* pairwise disjoint.
OrderedDisjoint(ms) ==
    /\ \A j \in 1..Len(ms) : ms[j].len > 0
    /\ \A j \in 1..Len(ms) - 1 : ms[j + 1].lb >= ms[j].lb + ms[j].len

\* C2: the cover extract_matches collects is, at every point of the scan,
\* non-empty per interval, strictly increasing in lb and pairwise disjoint, and
\* the Copy operations of delta sit at exactly those target ranges.
C2_CoverOrderedDisjoint ==
    /\ OrderedDisjoint(matches)
    /\ Returned => Copies(results) = matches

C2_Witness ==
    /\ pc = "delta_done"
    /\ Len(matches) >= 2
    /\ \E j \in 1..Len(hits) : Trimmed(hits[j])
    /\ Copies(results) = matches

\* la + len <= len(A), lb + len <= len(B) and A[la + i] = B[lb + i] for i < len.
ValidCopy(m) ==
    /\ m.la + m.len <= Len(a)
    /\ m.lb + m.len <= Len(b)
    /\ \A i \in 0..m.len - 1 : At(a, m.la + i) = At(b, m.lb + i)

\* C3: every interval of the cover, and every Copy(la, len) of delta at its
\* target position lb, lies inside A and inside B and copies equal bytes.
C3_CopyBytesEqual ==
    /\ \A j \in 1..Len(matches) : ValidCopy(matches[j])
    /\ Returned => \A j \in 1..Len(Copies(results)) : ValidCopy(Copies(results)[j])

\* delta returned a Copy that came from a hit between windows with different
\* bytes.
C3_Witness ==
    /\ pc = "delta_done"
    /\ \E j \in 1..Len(hits) :
          /\ Collision(hits[j])
          /\ hits[j].t.len > 0
          /\ \E q \in 1..Len(Copies(results)) :
                Copies(results)[q] = hits[j].t /\ ValidCopy(hits[j].t)

\* C4: delta of an empty target buffer is the empty operation sequence.
C4_EmptyTargetEmptyDelta == (Returned /\ b = <<>>) => results = <<>>

\* The start positions of the windows of D for a requested window length k.
WindowStarts(D, k) ==
    IF Min(k, Len(D)) = 0 THEN {} ELSE 0..(Len(D) - Min(k, Len(D)))

WindowHash(D, i, k) == DirectHash(D, i, Min(k, Len(D)))

NoWindowOfBInIndex ==
    \A i \in WindowStarts(b, HashLenNat) : WindowHash(b, i, HashLenNat) \notin DOMAIN hashes

\* C5: when no window hash of B is a key of the index over A, delta returns
\* exactly one operation, the Literal of the whole of B.
C5_NoMatchFallback == (Returned /\ NoWindowOfBInIndex) => results = <<Raw(b)>>

C5_Witness ==
    /\ pc = "delta_done"
    /\ NoWindowOfBInIndex
    /\ DOMAIN hashes # {}
    /\ Len(b) > HashLenNat
    /\ results = <<Raw(b)>>

\* C6: delta and restore never panic.
C6_NoPanic == pc # "panic"

\* The pairs yielded for a buffer of length n >= 1 are exactly those of the
\* window starts 0, 1, ..., n - k' in increasing order, k' = min(k, n).
EveryWindowYielded ==
    LET n == Len(it.data)
        k == Min(HashLenNat, n)
    IN  /\ Len(yielded) = n - k + 1
        /\ \A j \in 1..Len(yielded) : yielded[j][2] = j - 1

\* C7: a RollingHash iterated to exhaustion over a buffer of length n >= 1
\* has yielded one pair per window start 0..n-k', in order; a buffer holding
\* exactly one window yields exactly one pair, at position 0.
C7_EveryWindowYielded ==
    (pc = "hash" /\ exhausted /\ Len(it.data) >= 1) => EveryWindowYielded

\* C8: every yielded pair (h, i) carries the polynomial hash of the window
\* D[i..i+k), and 0 <= h < 1000000007.
C8_IncrementalEqualsDirect ==
    pc = "hash" =>
        \A j \in 1..Len(yielded) :
            /\ yielded[j][1] = DirectHash(it.data, yielded[j][2], it.hash_len)
            /\ 0 <= yielded[j][1]
            /\ yielded[j][1] < 1000000007

\* An incremental step over a window whose polynomial exceeds the modulus
\* (five or more bytes, the first one 255) and whose subtraction needed the
\* added M (v1 + v2 < v3).
C8_Witness ==
    /\ pc = "hash"
    /\ exhausted
    /\ it.hash_len >= 5
    /\ \E j \in 2..Len(yielded) :
          LET i == yielded[j][2]
              v1 == MulMod(100, yielded[j - 1][1])
              v2 == At(it.data, i - 1 + it.hash_len) + 1
              v3 == MulMod(Pow100(it.hash_len), At(it.data, i - 1) + 1)
          IN  /\ At(it.data, i) = 255
              /\ v1 + v2 < v3
              /\ yielded[j][1] = DirectHash(it.data, i, it.hash_len)

\* The sampled offsets of A whose window hashes to h: multiples of hash_len
\* whose window fits in A.
Samples(h) ==
    {i \in 0..(Len(a) - HashLenNat) :
        i % HashLenNat = 0 /\ DirectHash(a, i, HashLenNat) = h}

Greatest(S) == CHOOSE x \in S : \A y \in S : y <= x

\* C9: with hash_len = (min_match_len + 1) / 2, the index holds only
\* multiples of hash_len, each key maps to the greatest sampled offset whose
\* window has that hash, and every hit of the scan of B resolves to that offset.
C9_RightmostSampleWins ==
    pc \in {"scan", "delta_done", "restored"} =>
        /\ HashLenNat = (min_match_len[1] + 1) \div 2
        /\ \A h \in DOMAIN hashes :
              /\ hashes[h] % HashLenNat = 0
              /\ Samples(h) # {}
              /\ hashes[h] = Greatest(Samples(h))
        /\ \A j \in 1..Len(hits) :
              /\ Samples(hits[j].hb) # {}
              /\ hits[j].ia = Greatest(Samples(hits[j].hb))

\* A hit on a hash that two or more sampled windows of A share.
C9_Witness ==
    /\ pc = "delta_done"
    /\ \E j \in 1..Len(hits) :
          /\ Cardinality(Samples(hits[j].hb)) >= 2
          /\ hits[j].ia = Greatest(Samples(hits[j].hb))
          /\ hits[j].ia >= 2 * HashLenNat

\* The accepted results of a hit log, in order.
RECURSIVE AcceptedOf(_)
AcceptedOf(hs) ==
    IF hs = <<>> THEN <<>>
    ELSE (IF Head(hs).t.len > 0 THEN <<Head(hs).t>> ELSE <<>>) \o AcceptedOf(Tail(hs))

LastAcceptedBefore(j) ==
    LET acd == AcceptedOf(SubSeq(hits, 1, j - 1))
    IN  IF acd = <<>> THEN [la |-> 0, lb |-> 0, len |-> 0] ELSE acd[Len(acd)]

Contained(m, prev) == prev.lb <= m.lb /\ m.lb + m.len <= prev.lb + prev.len

\* hit j follows the overlap rule against the last accepted interval
OverlapRule(j) ==
    LET m == hits[j].m
        prev == hits[j].prev
        t == hits[j].t
        diff == prev.lb + prev.len - m.lb + 1
    IN  /\ prev = LastAcceptedBefore(j)
        /\ m.lb >= prev.lb + prev.len => t = m
        /\ Contained(m, prev) => t.len = 0
        /\ (m.lb < prev.lb + prev.len /\ ~Contained(m, prev)) =>
              /\ t.len = (IF m.len >= diff THEN m.len - diff ELSE 0)
              /\ t.la = m.la + diff
              /\ t.lb = m.lb + diff
        /\ Trimmed(hits[j]) => t.lb = prev.lb + prev.len + 1

\* delta emitted the byte between prev and the trimmed interval of hit j as a
\* one-byte Literal right before the Copy.
OneByteLiteralBefore(j) ==
    LET prev == hits[j].prev
        t == hits[j].t
    IN  \E q \in 2..Len(results) :
           /\ results[q] = Match(t.la, t.len)
           /\ TargetPos(results, q) = t.lb
           /\ results[q - 1] = Raw(<<At(b, prev.lb + prev.len)>>)

\* C10: each candidate is left unchanged, discarded or trimmed by
\* prev.lb + prev.len - m.lb + 1 as the overlap rule says; a trimmed accepted
\* interval starts at prev.lb + prev.len + 1 and delta emits the byte in
\* between as a one-byte Literal; the cover always is the accepted intervals
\* in the order they were accepted, none modified or removed.
C10_OverlapResolution ==
    /\ matches = AcceptedOf(hits)
    /\ \A j \in 1..Len(hits) : OverlapRule(j)
    /\ Returned => \A j \in 1..Len(hits) : Trimmed(hits[j]) => OneByteLiteralBefore(j)

C10_Witness ==
    /\ pc = "restored"
    /\ \E j \in 1..Len(hits) :
          /\ Trimmed(hits[j])
          /\ hits[j].t.lb = hits[j].prev.lb + hits[j].prev.len + 1
          /\ OneByteLiteralBefore(j)
          /\ j < Len(hits)

====
